---- MODULE Spec2Model ----
(***************************************************************************)
(* A model of luna/todo-agent.py: the TodoAgent that locates TODO.md       *)
(* files, parses them into sections of tasks, summarises and reports.      *)
(*                                                                         *)
(* A Python str is modelled as a sequence of one-character strings, so     *)
(* that stripping and regular-expression matching are computed character   *)
(* by character as the interpreter computes them.                          *)
(***************************************************************************)
EXTENDS Integers, Sequences, FiniteSets

VARIABLES
    pc,            \* position of the call under study
    form,          \* how the input line was built (indent, bullet, marker, text), if it was
    line,          \* argument of parse_task_line
    task,          \* result of parse_task_line
    lines,         \* file.readlines() of the document under parse
    sections,      \* a list of TodoSection: result of parse_todo_file / argument of get_task_summary
    summary,       \* result of get_task_summary
    flavour,       \* pathlib flavour: "posix" (PurePosixPath) or "windows" (PureWindowsPath)
    fs_ci,         \* TRUE when the filesystem of self.directory is case-insensitive
    disk,          \* the files of self.directory: name on disk -> content
    todo_files,    \* handle_request: result of find_todo_files
    all_output,    \* handle_request: the list of per-file reports
    output         \* handle_request: the returned string

vars == <<pc, form, line, task, lines, sections, summary,
          flavour, fs_ci, disk, todo_files, all_output, output>>

----------------------------------------------------------------------------
(* Bounds of the model *)

MaxLen == 5        \* longest raw line over LineAlphabet
MaxIndent == 2     \* most leading spaces of a built line
MaxText == 3       \* longest text of a built line
MaxLines == 4      \* most lines of a document built from LineCatalog
MaxSections == 2   \* most sections handed to get_task_summary
MaxTasks == 2      \* most tasks per section handed to get_task_summary

----------------------------------------------------------------------------
(* Python values *)

None == [some |-> FALSE]

\* class TaskStatus(Enum)
COMPLETED == "completed"
IN_PROGRESS == "in_progress"
PENDING == "pending"
UNKNOWN == "unknown"
TaskStatus == {COMPLETED, IN_PROGRESS, PENDING, UNKNOWN}

\* @dataclass Task
Task(content, status, level, line_number) ==
    [some |-> TRUE, content |-> content, status |-> status,
     level |-> level, line_number |-> line_number]

\* @dataclass TodoSection
TodoSection(title, tasks, line_number) ==
    [title |-> title, tasks |-> tasks, line_number |-> line_number]

----------------------------------------------------------------------------
(* str methods *)

\* str.isspace() of one character, which is also what \s matches
IsSpace(c) == c \in {" ", "\t", "\n"}

RECURSIVE lstrip(_)
lstrip(s) ==
    IF s = <<>> THEN s
    ELSE IF IsSpace(Head(s)) THEN lstrip(Tail(s)) ELSE s

RECURSIVE rstrip(_)
rstrip(s) ==
    IF s = <<>> THEN s
    ELSE IF IsSpace(s[Len(s)]) THEN rstrip(SubSeq(s, 1, Len(s) - 1)) ELSE s

strip(s) == lstrip(rstrip(s))

----------------------------------------------------------------------------
(* re.match: a backtracking matcher for the token kinds the patterns use.  *)
(* A pattern is a sequence of tokens, anchored at the start of the string: *)
(*   ws*    \s*       greedy, gives characters back on failure             *)
(*   ws1    \s        one whitespace character                             *)
(*   lit    a literal character                                            *)
(*   hash   (#{1,6})  greedy, gives characters back on failure             *)
(*   group  (.+)      greedy, '.' matches anything but a newline           *)
(* Every pattern ends with the group, so the first success is the match.   *)

WS == [t |-> "ws*", c |-> ""]
WS1 == [t |-> "ws1", c |-> ""]
HASH == [t |-> "hash", c |-> "#"]
GROUP == [t |-> "group", c |-> ""]
Lit(c) == [t |-> "lit", c |-> c]

NoMatch == [ok |-> FALSE, n |-> 0, from |-> 0, to |-> 0]

Min(a, b) == IF a < b THEN a ELSE b

\* number of consecutive characters from position i on that satisfy the token's class
RECURSIVE ClassRun(_, _, _)
ClassRun(s, i, cls) ==
    IF i > Len(s) THEN 0
    ELSE IF \/ cls = "space" /\ IsSpace(s[i])
            \/ cls = "hash" /\ s[i] = "#"
            \/ cls = "dot" /\ s[i] # "\n"
         THEN 1 + ClassRun(s, i + 1, cls)
         ELSE 0

RECURSIVE MatchAt(_, _, _, _)
RECURSIVE MatchRep(_, _, _, _, _, _)

\* the rest of the pattern after a repetition that took k characters, fewer on failure
MatchRep(re, s, i, k, lo, nh) ==
    IF k < lo THEN NoMatch
    ELSE LET r == MatchAt(Tail(re), s, i + k, IF Head(re).t = "hash" THEN k ELSE nh)
         IN IF r.ok THEN r ELSE MatchRep(re, s, i, k - 1, lo, nh)

MatchAt(re, s, i, nh) ==
    LET tok == Head(re) IN
    CASE tok.t = "lit" ->
            IF i <= Len(s) /\ s[i] = tok.c THEN MatchAt(Tail(re), s, i + 1, nh) ELSE NoMatch
      [] tok.t = "ws1" ->
            IF i <= Len(s) /\ IsSpace(s[i]) THEN MatchAt(Tail(re), s, i + 1, nh) ELSE NoMatch
      [] tok.t = "ws*" -> MatchRep(re, s, i, ClassRun(s, i, "space"), 0, nh)
      [] tok.t = "hash" -> MatchRep(re, s, i, Min(ClassRun(s, i, "hash"), 6), 1, nh)
      [] tok.t = "group" ->
            IF i <= Len(s) /\ s[i] # "\n"
            THEN [ok |-> TRUE, n |-> nh, from |-> i, to |-> i + ClassRun(s, i, "dot") - 1]
            ELSE NoMatch

\* re.match(pattern, s): ok, the length of the '#' group, and the span of the (.+) group
re_match(re, s) == MatchAt(re, s, 1, 0)

\* match.group of the (.+) group
group_text(m, s) == SubSeq(s, m.from, m.to)

----------------------------------------------------------------------------
(* TodoAgent.parse_task_line *)

Checkbox(c) == <<WS, Lit("-"), WS, Lit("["), Lit(c), Lit("]"), WS, GROUP>>
CheckboxBlank == <<WS, Lit("-"), WS, Lit("["), WS1, Lit("]"), WS, GROUP>>
Bullet(c) == <<WS, Lit(c), WS, GROUP>>

task_patterns_plain_first ==
    << [re |-> Bullet("-"), status |-> PENDING],
       [re |-> Checkbox("x"), status |-> COMPLETED],
       [re |-> Checkbox("X"), status |-> COMPLETED],
       [re |-> CheckboxBlank, status |-> PENDING],
       [re |-> Checkbox("~"), status |-> IN_PROGRESS],
       [re |-> Checkbox("o"), status |-> IN_PROGRESS],
       [re |-> Bullet("*"), status |-> PENDING],
       [re |-> Bullet("+"), status |-> PENDING] >>

task_patterns ==
    << [re |-> Checkbox("x"), status |-> COMPLETED],
       [re |-> Checkbox("X"), status |-> COMPLETED],
       [re |-> CheckboxBlank, status |-> PENDING],
       [re |-> Checkbox("~"), status |-> IN_PROGRESS],
       [re |-> Checkbox("o"), status |-> IN_PROGRESS],
       [re |-> Bullet("-"), status |-> PENDING],
       [re |-> Bullet("*"), status |-> PENDING],
       [re |-> Bullet("+"), status |-> PENDING] >>

\* the for loop over task_patterns, from pattern k on: the first match returns
RECURSIVE first_task_match(_, _, _, _, _)
first_task_match(subject, k, level, line_number, patterns) ==
    IF k > Len(patterns) THEN None
    ELSE LET match == re_match(patterns[k].re, subject)
         IN IF match.ok
            THEN Task(strip(group_text(match, subject)), patterns[k].status, level, line_number)
            ELSE first_task_match(subject, k + 1, level, line_number, patterns)

\* the slip of matching the raw line instead of stripped_line
parse_task_line_raw_subject(ln, line_number) ==
    LET stripped_line == rstrip(ln)
        level == (Len(ln) - Len(lstrip(ln))) \div 2 + 1
    IN IF stripped_line = <<>> THEN None
       ELSE first_task_match(ln, 1, level, line_number, task_patterns)

parse_task_line(ln, line_number) ==
    LET stripped_line == rstrip(ln)
        level == (Len(ln) - Len(lstrip(ln))) \div 2 + 1
    IN IF stripped_line = <<>> THEN None
       ELSE first_task_match(stripped_line, 1, level, line_number, task_patterns)

----------------------------------------------------------------------------
(* TodoAgent.parse_section_header *)

\* the slip of a pattern that takes one '#' only
header_pattern_single_hash == <<Lit("#"), WS, GROUP>>

header_pattern == <<HASH, WS, GROUP>>

parse_section_header(ln, line_number) ==
    LET stripped_line == strip(ln)
        header_match == re_match(header_pattern, stripped_line)
    IN IF header_match.ok
       THEN [some |-> TRUE,
             title |-> strip(group_text(header_match, stripped_line)),
             level |-> header_match.n]
       ELSE None

----------------------------------------------------------------------------
(* TodoAgent.parse_todo_file, after the file was read *)

\* Python truth of current_section: None and the empty str are false
Truthy(current_section) == current_section.some /\ current_section.title # <<>>

LoopStart == [sections |-> <<>>, current_section |-> None, current_tasks |-> <<>>]

\* the slip of saving the previous section only when it has tasks
OnHeader_skip_empty(st, section_info, line_number) ==
    [sections |->
        IF Truthy(st.current_section) /\ st.current_tasks # <<>>
        THEN Append(st.sections,
                    TodoSection(st.current_section.title, st.current_tasks, line_number))
        ELSE st.sections,
     current_section |-> [some |-> TRUE, title |-> section_info.title],
     current_tasks |-> <<>>]

\* the slip of resetting current_tasks only together with saving a section
OnHeader_keep_tasks(st, section_info, line_number) ==
    [sections |->
        IF Truthy(st.current_section)
        THEN Append(st.sections,
                    TodoSection(st.current_section.title, st.current_tasks, line_number))
        ELSE st.sections,
     current_section |-> [some |-> TRUE, title |-> section_info.title],
     current_tasks |-> IF Truthy(st.current_section) THEN <<>> ELSE st.current_tasks]

\* the slip of tagging the saved section with the line before the header
OnHeader_prev_line(st, section_info, line_number) ==
    [sections |->
        IF Truthy(st.current_section)
        THEN Append(st.sections,
                    TodoSection(st.current_section.title, st.current_tasks, line_number - 1))
        ELSE st.sections,
     current_section |-> [some |-> TRUE, title |-> section_info.title],
     current_tasks |-> <<>>]

\* the branch of a header line
OnHeader(st, section_info, line_number) ==
    [sections |->
        IF Truthy(st.current_section)
        THEN Append(st.sections,
                    TodoSection(st.current_section.title, st.current_tasks, line_number))
        ELSE st.sections,
     current_section |-> [some |-> TRUE, title |-> section_info.title],
     current_tasks |-> <<>>]

\* the branch of any other line
OnOther(st, ln, line_number) ==
    LET t == parse_task_line(ln, line_number)
    IN IF t.some THEN [st EXCEPT !.current_tasks = Append(@, t)] ELSE st

\* one iteration of the for loop
LoopBody(st, ln, line_number) ==
    LET section_info == parse_section_header(ln, line_number)
    IN IF section_info.some
       THEN OnHeader(st, section_info, line_number)
       ELSE OnOther(st, ln, line_number)

\* for line_number, line in enumerate(lines, 1), from line_number on
RECURSIVE Loop(_, _, _)
Loop(st, ls, line_number) ==
    IF line_number > Len(ls) THEN st
    ELSE Loop(LoopBody(st, ls[line_number], line_number), ls, line_number + 1)

\* "Add the last section"
AddLast(st, ls) ==
    IF Truthy(st.current_section)
    THEN Append(st.sections, TodoSection(st.current_section.title, st.current_tasks, Len(ls)))
    ELSE st.sections

parse_lines(ls) == AddLast(Loop(LoopStart, ls, 1), ls)

----------------------------------------------------------------------------
(* TodoAgent.get_task_summary *)

summary_start == [completed |-> 0, in_progress |-> 0, pending |-> 0, total |-> 0]

\* the slip of counting the total inside the status branches
CountTask_total_in_branches(sm, t) ==
    IF t.status = COMPLETED
    THEN [sm EXCEPT !.completed = @ + 1, !.total = @ + 1]
    ELSE IF t.status = IN_PROGRESS
    THEN [sm EXCEPT !.in_progress = @ + 1, !.total = @ + 1]
    ELSE IF t.status = PENDING
    THEN [sm EXCEPT !.pending = @ + 1, !.total = @ + 1]
    ELSE sm

\* the body of the inner loop, for one task
CountTask(sm, t) ==
    LET counted ==
            IF t.status = COMPLETED THEN [sm EXCEPT !.completed = @ + 1]
            ELSE IF t.status = IN_PROGRESS THEN [sm EXCEPT !.in_progress = @ + 1]
            ELSE IF t.status = PENDING THEN [sm EXCEPT !.pending = @ + 1]
            ELSE sm
    IN [counted EXCEPT !.total = @ + 1]

\* for task in section.tasks, from task n on
RECURSIVE CountTasks(_, _, _)
CountTasks(sm, tasks, n) ==
    IF n > Len(tasks) THEN sm
    ELSE CountTasks(CountTask(sm, tasks[n]), tasks, n + 1)

\* for section in sections, from section k on
RECURSIVE CountSections(_, _, _)
CountSections(sm, secs, k) ==
    IF k > Len(secs) THEN sm
    ELSE CountSections(CountTasks(sm, secs[k].tasks, 1), secs, k + 1)

get_task_summary(secs) == CountSections(summary_start, secs, 1)

----------------------------------------------------------------------------
(* Paths and the directory *)

\* str.lower() of one character of a candidate name
LowerChar(c) ==
    CASE c = "T" -> "t"
      [] c = "O" -> "o"
      [] c = "D" -> "d"
      [] c = "M" -> "m"
      [] OTHER -> c

Lower(name) == [i \in 1..Len(name) |-> LowerChar(name[i])]

\* Path.__eq__: PurePosixPath compares the parts as written, PureWindowsPath
\* compares them case-folded
path_eq(fl, p, q) == IF fl = "windows" THEN Lower(p) = Lower(q) ELSE p = q

\* file_path in todo_files
path_in(fl, p, paths) == \E i \in 1..Len(paths) : path_eq(fl, paths[i], p)

\* two names of self.directory name the same file
SameFile(ci, a, b) == IF ci THEN Lower(a) = Lower(b) ELSE a = b

\* Path.exists()
exists(ci, dsk, name) == \E n \in DOMAIN dsk : SameFile(ci, n, name)

\* the file on disk a name resolves to
Resolve(ci, dsk, name) == CHOOSE n \in DOMAIN dsk : SameFile(ci, n, name)

\* self.todo_file, as its name in self.directory
todo_file == <<"T", "O", "D", "O", ".", "m", "d">>

variations ==
    << <<"t", "o", "d", "o", ".", "m", "d">>,
       <<"T", "O", "D", "O", ".", "M", "D">>,
       <<"T", "o", "d", "o", ".", "m", "d">>,
       <<"T", "o", "D", "o", ".", "m", "d">> >>

----------------------------------------------------------------------------
(* TodoAgent.find_todo_files *)

\* for variation in variations, from variation k on
RECURSIVE CheckVariations(_, _, _, _, _)
CheckVariations(fl, ci, dsk, found, k) ==
    IF k > Len(variations) THEN found
    ELSE LET file_path == variations[k]
         IN CheckVariations(fl, ci, dsk,
                IF exists(ci, dsk, file_path) /\ ~path_in(fl, file_path, found)
                THEN Append(found, file_path) ELSE found,
                k + 1)

find_todo_files(fl, ci, dsk) ==
    CheckVariations(fl, ci, dsk,
        IF exists(ci, dsk, todo_file) THEN <<todo_file>> ELSE <<>>, 1)

----------------------------------------------------------------------------
(* TodoAgent.parse_todo_file: reading the file, then parse_lines *)

Unreadable == [readable |-> FALSE, lines |-> <<>>]
Readable(ls) == [readable |-> TRUE, lines |-> ls]

\* the slip of an except clause that does not catch the read failure
parse_todo_file_uncaught(ci, dsk, file_path) ==
    LET content == dsk[Resolve(ci, dsk, file_path)]
    IN IF content.readable
       THEN [raised |-> FALSE, sections |-> parse_lines(content.lines)]
       ELSE [raised |-> TRUE, sections |-> <<>>]

\* raised: an exception left the function; sections: the list returned
parse_todo_file(ci, dsk, file_path) ==
    LET content == dsk[Resolve(ci, dsk, file_path)]
    IN IF content.readable
       THEN [raised |-> FALSE, sections |-> parse_lines(content.lines)]
       ELSE [raised |-> FALSE, sections |-> <<>>]

----------------------------------------------------------------------------
(* TodoAgent.format_output and the strings of handle_request.              *)
(* A str of the output is a sequence of pieces: a character, or the text   *)
(* rendered from one datum (a file's report).                              *)

Ch(c) == [kind |-> "char", c |-> c]

format_output(secs, file_path) ==
    IF secs = <<>>
    THEN << [kind |-> "no_tasks", file |-> file_path] >>
    ELSE LET sm == get_task_summary(secs)
         IN << [kind |-> "report", file |-> file_path, summary |-> sm,
                completion_rate |-> sm.total > 0, sections |-> secs] >>

\* the message of handle_request when no file was found
no_file_message == << [kind |-> "no_file"] >>

\* str.join
RECURSIVE join(_, _)
join(sep, strs) ==
    IF strs = <<>> THEN <<>>
    ELSE IF Len(strs) = 1 THEN strs[1]
    ELSE strs[1] \o sep \o join(sep, Tail(strs))

RuleWidth == 80
Rule == [i \in 1..RuleWidth |-> Ch("=")]
Blank == <<Ch("\n"), Ch("\n")>>

\* the return expression of handle_request: '+' binds the rule to the first
\* operand, and join separates the reports by "\n\n"
return_value(reports) == Blank \o Rule \o join(Blank, reports)

----------------------------------------------------------------------------
(* Inputs: lines *)

SeqsUpTo(S, n) == UNION {[1..k -> S] : k \in 0..n}

\* raw lines: every string over LineAlphabet of at most MaxLen characters
LineAlphabet == {" ", "\n", "-", "*", "[", "]", "x", "a"}
RawLines == SeqsUpTo(LineAlphabet, MaxLen)

\* built lines: indent, bullet, optional checkbox, text, optional newline
TextAlphabet == {" ", "a", "[", "]", "x"}
Texts == SeqsUpTo(TextAlphabet, MaxText) \ {<<>>}
Markers == {"x", "X", " ", "~", "o"}
NoMarker == ""
Forms ==
    [some : {TRUE}, indent : 0..MaxIndent, bullet : {"-"}, marker : Markers,
     text : Texts, nl : BOOLEAN]
    \cup
    [some : {TRUE}, indent : 0..MaxIndent, bullet : {"-", "*", "+"}, marker : {NoMarker},
     text : Texts, nl : BOOLEAN]

Build(f) ==
    [i \in 1..f.indent |-> " "]
    \o <<f.bullet, " ">>
    \o (IF f.marker = NoMarker THEN <<>> ELSE <<"[", f.marker, "]", " ">>)
    \o f.text
    \o (IF f.nl THEN <<"\n">> ELSE <<>>)

----------------------------------------------------------------------------
(* Inputs: documents *)

LineCatalog ==
    { <<"#", " ", "A", "\n">>,                       \* header "A"
      <<" ", "#", "#", " ", "B", " ", "\n">>,        \* header "B", indented
      <<"-", " ", "[", "x", "]", " ", "t", "\n">>,   \* completed task
      <<" ", " ", "*", " ", "u", "\n">>,             \* pending task, level 2
      <<"-", " ", "[", "~", "]", " ", "v", "\n">>,   \* task in progress
      <<"p", "\n">>,                                 \* prose
      <<"\n">>,                                      \* blank
      <<"#", "\n">> }                                \* '#' with no title: no header

Documents == SeqsUpTo(LineCatalog, MaxLines)

ScenarioDocument ==
    << <<"#", " ", "P", "r", "o", "j", "e", "c", "t", "\n">>,
       <<"#", "#", " ", "C", "o", "m", "p", "l", "e", "t", "e", "d", "\n">>,
       <<"-", " ", "[", "x", "]", " ", "W", "r", "i", "t", "e", " ", "s", "p", "e", "c", "\n">>,
       <<"#", "#", " ", "P", "e", "n", "d", "i", "n", "g", "\n">>,
       <<"-", " ", "[", " ", "]", " ", "R", "e", "v", "i", "e", "w", " ", "s", "p", "e", "c", "\n">>,
       <<"-", " ", "[", " ", "]", " ", "S", "h", "i", "p", "\n">> >>

----------------------------------------------------------------------------
(* Values of the variables a call does not use *)

NoForm == [some |-> FALSE]

----------------------------------------------------------------------------
(* A call of parse_task_line on a raw or a built line *)

InitTask ==
    /\ pc = "task_call"
    /\ \/ form = NoForm /\ line \in RawLines
       \/ form \in Forms /\ line = Build(form)
    /\ task = None
    /\ lines = <<>> /\ sections = <<>> /\ summary = summary_start
    /\ flavour = "posix" /\ fs_ci = FALSE /\ disk = <<>>
    /\ todo_files = <<>> /\ all_output = <<>> /\ output = <<>>

CallParseTaskLine ==
    /\ pc = "task_call"
    /\ task' = parse_task_line(line, 1)
    /\ pc' = "task_done"
    /\ UNCHANGED <<form, line, lines, sections, summary,
                   flavour, fs_ci, disk, todo_files, all_output, output>>

NextTask == CallParseTaskLine

SpecTask == InitTask /\ [][NextTask]_vars

----------------------------------------------------------------------------
(* A call of parse_todo_file on a document that was read *)

InitParse ==
    /\ pc = "parse_call"
    /\ lines \in Documents \cup {ScenarioDocument}
    /\ form = NoForm /\ line = <<>> /\ task = None
    /\ sections = <<>> /\ summary = summary_start
    /\ flavour = "posix" /\ fs_ci = FALSE /\ disk = <<>>
    /\ todo_files = <<>> /\ all_output = <<>> /\ output = <<>>

CallParseTodoFile ==
    /\ pc = "parse_call"
    /\ sections' = parse_lines(lines)
    /\ pc' = "parse_done"
    /\ UNCHANGED <<form, line, task, lines, summary,
                   flavour, fs_ci, disk, todo_files, all_output, output>>

NextParse == CallParseTodoFile

SpecParse == InitParse /\ [][NextParse]_vars

----------------------------------------------------------------------------
(* Either call: parse_task_line on a line, or parse_todo_file on a document *)

InitContent == InitTask \/ InitParse

NextContent == CallParseTaskLine \/ CallParseTodoFile

SpecContent == InitContent /\ [][NextContent]_vars

----------------------------------------------------------------------------
(* A call of get_task_summary on any list of sections *)

TaskInputs == {Task(<<"t">>, st, 1, 1) : st \in TaskStatus}
SectionInputs == {TodoSection(<<"S">>, ts, 1) : ts \in SeqsUpTo(TaskInputs, MaxTasks)}

InitSummary ==
    /\ pc = "summary_call"
    /\ sections \in SeqsUpTo(SectionInputs, MaxSections)
    /\ form = NoForm /\ line = <<>> /\ task = None
    /\ lines = <<>> /\ summary = summary_start
    /\ flavour = "posix" /\ fs_ci = FALSE /\ disk = <<>>
    /\ todo_files = <<>> /\ all_output = <<>> /\ output = <<>>

CallGetTaskSummary ==
    /\ pc = "summary_call"
    /\ summary' = get_task_summary(sections)
    /\ pc' = "summary_done"
    /\ UNCHANGED <<form, line, task, lines, sections,
                   flavour, fs_ci, disk, todo_files, all_output, output>>

NextSummary == CallGetTaskSummary

SpecSummary == InitSummary /\ [][NextSummary]_vars

----------------------------------------------------------------------------
(* A call of handle_request in any directory *)

CandidateNames == {todo_file} \cup {variations[k] : k \in 1..Len(variations)}

FileContents ==
    { Unreadable,
      Readable(<<>>),
      Readable(<< <<"p", "\n">> >>),
      Readable(<< <<"#", " ", "A", "\n">>, <<"-", " ", "[", "x", "]", " ", "t", "\n">> >>) }

\* pathlib flavour and case-insensitivity of the filesystem: Linux, macOS, Windows
Platforms == {<<"posix", FALSE>>, <<"posix", TRUE>>, <<"windows", TRUE>>}

\* a case-insensitive directory holds at most one of the candidate names
Directories(ci) ==
    UNION { [S -> FileContents] :
            S \in {T \in SUBSET CandidateNames : ci => Cardinality(T) <= 1} }

InitAgent ==
    /\ pc = "agent_call"
    /\ \E platform \in Platforms : flavour = platform[1] /\ fs_ci = platform[2]
    /\ disk \in Directories(fs_ci)
    /\ todo_files = <<>> /\ all_output = <<>> /\ output = <<>>
    /\ form = NoForm /\ line = <<>> /\ task = None
    /\ lines = <<>> /\ sections = <<>> /\ summary = summary_start

\* handle_request up to the loop: find_todo_files, and the return when none is found
FindTodoFiles ==
    /\ pc = "agent_call"
    /\ todo_files' = find_todo_files(flavour, fs_ci, disk)
    /\ IF todo_files' = <<>>
       THEN output' = no_file_message /\ pc' = "agent_done"
       ELSE output' = output /\ pc' = "agent_loop"
    /\ UNCHANGED <<form, line, task, lines, sections, summary,
                   flavour, fs_ci, disk, all_output>>

\* one iteration of "for file_path in todo_files"
ProcessFile ==
    /\ pc = "agent_loop"
    /\ Len(all_output) < Len(todo_files)
    /\ LET file_path == todo_files[Len(all_output) + 1]
           parsed == parse_todo_file(fs_ci, disk, file_path)
       IN IF parsed.raised
          THEN pc' = "agent_raised" /\ all_output' = all_output
          ELSE /\ all_output' = Append(all_output, format_output(parsed.sections, file_path))
               /\ pc' = pc
    /\ UNCHANGED <<form, line, task, lines, sections, summary,
                   flavour, fs_ci, disk, todo_files, output>>

\* the return after the loop
Return ==
    /\ pc = "agent_loop"
    /\ Len(all_output) = Len(todo_files)
    /\ output' = return_value(all_output)
    /\ pc' = "agent_done"
    /\ UNCHANGED <<form, line, task, lines, sections, summary,
                   flavour, fs_ci, disk, todo_files, all_output>>

NextAgent == FindTodoFiles \/ ProcessFile \/ Return

SpecAgent == InitAgent /\ [][NextAgent]_vars

----------------------------------------------------------------------------
(* Properties of parse_task_line *)

HasNonSpace(s) == \E i \in 1..Len(s) : ~IsSpace(s[i])
AllSpace(s) == \A i \in 1..Len(s) : IsSpace(s[i])

StatusOfMarker(m) ==
    CASE m \in {"x", "X"} -> COMPLETED
      [] m = " " -> PENDING
      [] m \in {"~", "o"} -> IN_PROGRESS

CheckboxPatterns ==
    {Checkbox("x"), Checkbox("X"), CheckboxBlank, Checkbox("~"), Checkbox("o")}

\* the line matches the checkbox form of the task recognizer
MatchesCheckboxForm(ln) == \E re \in CheckboxPatterns : re_match(re, rstrip(ln)).ok

\* what the classification of a built line is claimed to be
ClassifiedAsBuilt ==
    IF form.marker # NoMarker
    THEN /\ task.some
         /\ task.status = StatusOfMarker(form.marker)
         /\ task.content = strip(form.text)
    ELSE MatchesCheckboxForm(line) \/ (task.some /\ task.status = PENDING)

\* C5 as stated: for every non-empty text and every indentation, a line
\* '- [x] text' or '- [X] text' is Completed, '- [ ] text' is Pending,
\* '- [~] text' or '- [o] text' is InProgress, each with the trimmed text as
\* content, and a plain bullet that is no checkbox form is Pending.
C5_AsStated ==
    (pc = "task_done" /\ form.some /\ form.text # <<>>) => ClassifiedAsBuilt

\* C5 amended: the same, for every text that holds at least one character
\* that is not whitespace.
C5_Classification ==
    (pc = "task_done" /\ form.some /\ HasNonSpace(form.text)) => ClassifiedAsBuilt

\* an indented '- [x]  a' line was classified Completed with content "a"
C5_Witness ==
    /\ pc = "task_done" /\ form.some
    /\ form.marker = "x" /\ form.indent = 2 /\ form.text = <<" ", "a">>
    /\ task.some /\ task.status = COMPLETED /\ task.content = <<"a">>

\* C6: a Task returned by parse_task_line has a non-empty content with no
\* leading or trailing whitespace, and an empty or whitespace-only line
\* returns no Task; hence every task of every section of parse_todo_file
\* has a non-empty content.
C6_ContentNonEmpty ==
    /\ pc = "task_done" =>
          /\ task.some =>
                /\ task.content # <<>>
                /\ ~IsSpace(task.content[1])
                /\ ~IsSpace(task.content[Len(task.content)])
          /\ AllSpace(line) => ~task.some
    /\ pc = "parse_done" =>
          \A k \in 1..Len(sections) :
             \A n \in 1..Len(sections[k].tasks) : sections[k].tasks[n].content # <<>>

\* a line with whitespace after its text gave a Task with the text alone
C6_Witness ==
    /\ pc = "task_done"
    /\ task.some /\ task.content = <<"a">>
    /\ Len(line) > 3 /\ line[Len(line)] = " " /\ line[Len(line) - 1] = " "

----------------------------------------------------------------------------
(* Properties of parse_todo_file *)

IsHeaderLine(i) == parse_section_header(lines[i], i).some
IsTaskLine(i) == ~IsHeaderLine(i) /\ parse_task_line(lines[i], i).some
HeaderLines == {i \in 1..Len(lines) : IsHeaderLine(i)}

\* the k-th smallest element of a set of numbers
Nth(S, k) == CHOOSE i \in S : Cardinality({j \in S : j < i}) = k - 1

\* the elements of a set of line numbers, ascending
Ascending(S) == [k \in 1..Cardinality(S) |-> Nth(S, k)]

\* the line that ends the section of the k-th header
SectionEnd(k) ==
    IF k < Cardinality(HeaderLines) THEN Nth(HeaderLines, k + 1) ELSE Len(lines) + 1

\* the tasks of the task lines strictly between two lines, in document order
TasksBetween(a, b) ==
    LET at == Ascending({i \in (a + 1)..(b - 1) : IsTaskLine(i)})
    IN [n \in 1..Len(at) |-> parse_task_line(lines[at[n]], at[n])]

\* C1: one section per header line, in document order, with that header's
\* trimmed title, holding exactly the task lines after its header and before
\* the next header (or the end), in document order; a header followed at once
\* by a header gives a section with zero tasks.
C1_SectionPerHeader ==
    pc = "parse_done" =>
        /\ Len(sections) = Cardinality(HeaderLines)
        /\ \A k \in 1..Len(sections) :
              LET h == Nth(HeaderLines, k)
              IN /\ sections[k].title = parse_section_header(lines[h], h).title
                 /\ sections[k].tasks = TasksBetween(h, SectionEnd(k))

\* a header directly followed by a header gave a section with zero tasks,
\* next to a section that holds two tasks
C1_Witness ==
    /\ pc = "parse_done"
    /\ \E k \in 1..Len(sections) :
          /\ k < Len(sections)
          /\ sections[k].tasks = <<>>
          /\ SectionEnd(k) = Nth(HeaderLines, k) + 1
    /\ \E k \in 1..Len(sections) : Len(sections[k].tasks) = 2

\* the task lines before the first header line
LeadingTaskLines ==
    {i \in 1..Len(lines) : IsTaskLine(i) /\ \A h \in HeaderLines : i < h}

\* C2: a task line before the first header line appears in no section, and a
\* document with no header line parses to zero sections.
C2_LeadingTasksDropped ==
    pc = "parse_done" =>
        /\ HeaderLines = {} => sections = <<>>
        /\ \A i \in LeadingTaskLines :
              \A k \in 1..Len(sections) :
                 \A n \in 1..Len(sections[k].tasks) :
                    sections[k].tasks[n].line_number # i

\* a document that starts with a task line and has a header with a task after it
C2_Witness ==
    /\ pc = "parse_done"
    /\ 1 \in LeadingTaskLines
    /\ Len(sections) = 1 /\ Len(sections[1].tasks) = 1

ProjectTitle == <<"P", "r", "o", "j", "e", "c", "t">>
CompletedTitle == <<"C", "o", "m", "p", "l", "e", "t", "e", "d">>
PendingTitle == <<"P", "e", "n", "d", "i", "n", "g">>

Statuses(tasks) == [n \in 1..Len(tasks) |-> tasks[n].status]

\* C3 as stated: the scenario document yields exactly 2 sections, 'Completed'
\* with 1 Completed task and 'Pending' with 2 Pending tasks.
C3_AsStated ==
    (pc = "parse_done" /\ lines = ScenarioDocument) =>
        /\ Len(sections) = 2
        /\ sections[1].title = CompletedTitle
        /\ Statuses(sections[1].tasks) = <<COMPLETED>>
        /\ sections[2].title = PendingTitle
        /\ Statuses(sections[2].tasks) = <<PENDING, PENDING>>

\* C3 amended: the scenario document yields exactly 3 sections: 'Project'
\* with no task, 'Completed' with 1 Completed task and 'Pending' with 2
\* Pending tasks.
C3_Scenario ==
    (pc = "parse_done" /\ lines = ScenarioDocument) =>
        /\ Len(sections) = 3
        /\ sections[1].title = ProjectTitle
        /\ sections[1].tasks = <<>>
        /\ sections[2].title = CompletedTitle
        /\ Statuses(sections[2].tasks) = <<COMPLETED>>
        /\ sections[3].title = PendingTitle
        /\ Statuses(sections[3].tasks) = <<PENDING, PENDING>>

\* the scenario document was parsed
C3_Witness ==
    /\ pc = "parse_done" /\ lines = ScenarioDocument
    /\ Len(sections) = 3 /\ sections[1].tasks = <<>>

\* C7: every section but the last carries the line number of the next header
\* line, and the last section carries the number of lines of the document.
C7_SectionLineNumbers ==
    pc = "parse_done" =>
        \A k \in 1..Len(sections) :
           sections[k].line_number =
              IF k < Len(sections) THEN Nth(HeaderLines, k + 1) ELSE Len(lines)

\* two sections, the first closed by a header on line 3, the last followed by
\* a line that is no header
C7_Witness ==
    /\ pc = "parse_done"
    /\ Len(sections) = 2
    /\ sections[1].line_number = 3
    /\ sections[2].line_number = 4
    /\ HeaderLines = {1, 3}

----------------------------------------------------------------------------
(* Properties of get_task_summary *)

TaskPositions ==
    UNION {{<<k, n>> : n \in 1..Len(sections[k].tasks)} : k \in 1..Len(sections)}
CountOf(st) == Cardinality({x \in TaskPositions : sections[x[1]].tasks[x[2]].status = st})

\* C4: total is the number of tasks in all sections, which is completed +
\* in_progress + pending + the number of Unknown tasks; an Unknown task
\* counts in total only.
C4_SummaryTotal ==
    pc = "summary_done" =>
        /\ summary.total = Cardinality(TaskPositions)
        /\ summary.total =
              summary.completed + summary.in_progress + summary.pending + CountOf(UNKNOWN)
        /\ summary.completed = CountOf(COMPLETED)
        /\ summary.in_progress = CountOf(IN_PROGRESS)
        /\ summary.pending = CountOf(PENDING)

\* sections with an Unknown task next to tasks of other statuses were summarised
C4_Witness ==
    /\ pc = "summary_done"
    /\ CountOf(UNKNOWN) >= 1
    /\ summary.completed >= 1
    /\ summary.total >= 3

----------------------------------------------------------------------------
(* Properties of find_todo_files and handle_request *)

\* position of a candidate name in the check order
CheckOrder(name) == IF name = todo_file THEN 0 ELSE CHOOSE k \in 1..Len(variations) : variations[k] = name

\* C9: find_todo_files returns the existing candidates in check order and
\* never two entries that resolve to the same file.
C9_NoDuplicateFile ==
    pc # "agent_call" =>
        /\ \A i \in 1..Len(todo_files) : exists(fs_ci, disk, todo_files[i])
        /\ \A n \in DOMAIN disk :
              \E i \in 1..Len(todo_files) : Resolve(fs_ci, disk, todo_files[i]) = n
        /\ \A i, j \in 1..Len(todo_files) :
              i < j => /\ CheckOrder(todo_files[i]) < CheckOrder(todo_files[j])
                       /\ Resolve(fs_ci, disk, todo_files[i]) # Resolve(fs_ci, disk, todo_files[j])

\* the pieces of a str that are reports, in order
RECURSIVE ReportsOf(_)
ReportsOf(str) ==
    IF str = <<>> THEN <<>>
    ELSE IF Head(str).kind = "char" THEN ReportsOf(Tail(str))
    ELSE <<Head(str)>> \o ReportsOf(Tail(str))

CandidateContent(i) == disk[Resolve(fs_ci, disk, todo_files[i])]

\* C8: a candidate whose read fails is reported as 'found but no tasks
\* detected', every other candidate is parsed and reported, the reports are
\* in candidate order, and no failure aborts the request.
C8_ReadFailureContained ==
    /\ pc # "agent_raised"
    /\ (pc = "agent_done" /\ todo_files # <<>>) =>
          LET reports == ReportsOf(output)
          IN /\ Len(reports) = Len(todo_files)
             /\ \A i \in 1..Len(todo_files) :
                   /\ reports[i].file = todo_files[i]
                   /\ ~CandidateContent(i).readable => reports[i].kind = "no_tasks"
                   /\ CandidateContent(i).readable =>
                         reports[i] = format_output(parse_lines(CandidateContent(i).lines),
                                                    todo_files[i])[1]

\* a request over an unreadable candidate followed by a candidate with
\* sections returned, the second one reported in full
C8_Witness ==
    /\ pc = "agent_done"
    /\ Len(todo_files) >= 2
    /\ ~CandidateContent(1).readable
    /\ ReportsOf(output)[1].kind = "no_tasks"
    /\ ReportsOf(output)[2].kind = "report"

\* str without its newline characters
RECURSIVE WithoutNewlines(_)
WithoutNewlines(str) ==
    IF str = <<>> THEN <<>>
    ELSE IF Head(str) = Ch("\n") THEN WithoutNewlines(Tail(str))
    ELSE <<Head(str)>> \o WithoutNewlines(Tail(str))

\* the reports with the rule between every two consecutive ones
RECURSIVE RuledReports(_)
RuledReports(reports) ==
    IF Len(reports) = 1 THEN reports[1]
    ELSE reports[1] \o Rule \o RuledReports(Tail(reports))

\* C10: the output over n >= 1 candidates is the n reports in candidate
\* order with an 80-character rule of '=' between every two consecutive
\* reports, n - 1 rules in all.
C10_RuleBetweenReports ==
    (pc = "agent_done" /\ todo_files # <<>>) =>
        WithoutNewlines(output) = RuledReports(all_output)

====
